---- MODULE Spec2Model ----
(***************************************************************************)
(* DetectMultiBackend of models/common.py: the format sniffer              *)
(* (_model_type), the backend loader (__init__), the unified inference     *)
(* call (forward, from_numpy) and warmup.                                  *)
(*                                                                         *)
(* Paths, suffixes and runtime names are TLA+ strings; TLC evaluates Len,  *)
(* SubSeq and \o on them, so "s in name", startswith and Path(p).name are  *)
(* computed on the characters as Python computes them.                     *)
(***************************************************************************)
EXTENDS Integers, Sequences, FiniteSets, TLC

VARIABLES
    pc,       \* "start" | "loaded" | "raised": position of the instance's life
    exc,      \* exception type that ended __init__ ("" when none)
    w,        \* the weights string handed to __init__ / _model_type
    mt,       \* what _model_type(w) did: [raised |-> BOOLEAN, types |-> 13 flags]
    loader,   \* the loader branch __init__ entered ("" when none)
    attrs,    \* names of the attributes assigned on self
    flags,    \* self.pt .. self.triton, in _model_type's order
    dnn,      \* self.dnn
    nhwc,     \* self.nhwc
    device,   \* self.device.type
    stride,   \* self.stride
    names,    \* self.names: index -> label
    handle,   \* handle attribute -> loader branch that created it
    artifact, \* the metadata the loader found in the model artifact
    data,     \* self.data: the dataset yaml argument
    runtime,  \* self.model.runtime of a Triton handle ("" otherwise)
    fwd,      \* record of the last forward call
    warm,     \* record of the last warmup call
    lm,       \* record of the last _load_metadata call
    layer,    \* record of the last autopad / SPP / SPPF evaluation
    heap,     \* the Detections objects that exist, by object id
    res       \* record of the last AutoShape / Detections call

\* the state of a DetectMultiBackend instance
dmbVars == <<pc, exc, w, mt, loader, attrs, flags, dnn, nhwc, device,
             stride, names, handle, artifact, data, runtime, fwd, warm, lm>>

\* the state of the layer functions and of the AutoShape results
otherVars == <<layer, heap, res>>

vars == <<pc, exc, w, mt, loader, attrs, flags, dnn, nhwc, device,
          stride, names, handle, artifact, data, runtime, fwd, warm, lm,
          layer, heap, res>>

-----------------------------------------------------------------------------
(* Bounds of the model *)

MaxOutputs == 3      \* largest number of outputs a native call returns
MaxNames == 2        \* largest number of classes in artifact metadata / data file
MaxK == 5            \* largest kernel size handed to Conv
MaxD == 3            \* largest dilation handed to Conv
MaxP == 2            \* largest explicit padding handed to Conv
GridH == 1           \* height of the feature maps handed to SPP / SPPF
GridW == 6           \* width of the feature maps handed to SPP / SPPF
MaxBatch == 2        \* largest number of images handed to AutoShape.forward
MaxIds == 2          \* number of distinct images
MaxObjs == 4         \* largest number of Detections objects alive

-----------------------------------------------------------------------------
(* String helpers: Python str / pathlib / urllib.parse on characters *)

Char(s, i) == SubSeq(s, i, i)

Min(S) == CHOOSE m \in S : \A n \in S : m <= n

Max(S) == CHOOSE m \in S : \A n \in S : m >= n

\* Python "s in t" on strings
Contains(s, t) ==
    \E i \in 1..(Len(t) - Len(s) + 1) : SubSeq(t, i, i + Len(s) - 1) = s

\* Python t.startswith(s)
StartsWith(s, t) == Len(s) <= Len(t) /\ SubSeq(t, 1, Len(s)) = s

\* Python t.endswith(s)
EndsWith(s, t) == Len(s) <= Len(t) /\ SubSeq(t, Len(t) - Len(s) + 1, Len(t)) = s

\* index of the first character of s that is in C, 0 when there is none
FirstIdx(s, C) ==
    LET I == {i \in 1..Len(s) : Char(s, i) \in C}
    IN  IF I = {} THEN 0 ELSE Min(I)

\* index of the last character of s that is in C, 0 when there is none
LastIdx(s, C) ==
    LET I == {i \in 1..Len(s) : Char(s, i) \in C}
    IN  IF I = {} THEN 0 ELSE Max(I)

Upper == <<"A", "B", "C", "D", "E", "F", "G", "H", "I", "J", "K", "L", "M",
           "N", "O", "P", "Q", "R", "S", "T", "U", "V", "W", "X", "Y", "Z">>

Lowers == <<"a", "b", "c", "d", "e", "f", "g", "h", "i", "j", "k", "l", "m",
            "n", "o", "p", "q", "r", "s", "t", "u", "v", "w", "x", "y", "z">>

LowerChar(c) ==
    IF \E i \in 1..26 : Upper[i] = c
    THEN Lowers[CHOOSE i \in 1..26 : Upper[i] = c]
    ELSE c

RECURSIVE Lower(_)
\* Python s.lower()
Lower(s) == IF Len(s) = 0 THEN "" ELSE LowerChar(Char(s, 1)) \o Lower(Tail(s))

Digits == {"0", "1", "2", "3", "4", "5", "6", "7", "8", "9"}

Letters == {Upper[i] : i \in 1..26} \cup {Lowers[i] : i \in 1..26}

\* urllib.parse.scheme_chars
SchemeChars == Letters \cup Digits \cup {"+", "-", "."}

\* pathlib: Path(p).name, the final path component (trailing slashes dropped)
PathName(p) ==
    LET N == {k \in 1..Len(p) : Char(p, k) # "/"}
        e == IF N = {} THEN 0 ELSE Max(N)
        q == SubSeq(p, 1, e)
        i == LastIdx(q, {"/"})
    IN  SubSeq(q, i + 1, Len(q))

\* pathlib: Path(p).suffix, the final component's last dot-extension
PathSuffix(p) ==
    LET n == PathName(p)
        i == LastIdx(n, {"."})
    IN  IF i > 1 /\ i < Len(n) THEN SubSeq(n, i, Len(n)) ELSE ""

\* urllib.parse.urlparse(p): scheme and netloc
UrlParse(p) ==
    LET i == FirstIdx(p, {":"})
        hasScheme == /\ i > 1
                     /\ Char(p, 1) \in Letters
                     /\ \A j \in 1..(i - 1) : Char(p, j) \in SchemeChars
        scheme == IF hasScheme THEN Lower(SubSeq(p, 1, i - 1)) ELSE ""
        rest == IF hasScheme THEN SubSeq(p, i + 1, Len(p)) ELSE p
        body == SubSeq(rest, 3, Len(rest))
        j == FirstIdx(body, {"/", "?", "#"})
        netloc == IF StartsWith("//", rest)
                  THEN (IF j = 0 THEN body ELSE SubSeq(body, 1, j - 1))
                  ELSE ""
    IN  [scheme |-> scheme, netloc |-> netloc]

-----------------------------------------------------------------------------
(* The format sniffer *)

\* export_formats().Suffix, in the order of the format table
Suffix == <<".pt", ".torchscript", ".onnx", "_openvino_model", ".engine",
            ".mlmodel", "_saved_model", ".pb", ".tflite", "_edgetpu.tflite",
            "_web_model", "_paddle_model">>

NFormats == Len(Suffix)

\* positions of the flags in _model_type's return value
PT == 1
JIT == 2
ONNX == 3
XML == 4
ENGINE == 5
COREML == 6
SAVED_MODEL == 7
PB == 8
TFLITE == 9
EDGETPU == 10
TFJS == 11
PADDLE == 12
TRITON == 13

\* utils.downloads.is_url(p, check=False): both scheme and netloc are present
is_url(p) == UrlParse(p).scheme # "" /\ UrlParse(p).netloc # ""

\* utils.general.check_suffix(p, sf): TRUE when its assertion passes
check_suffix(p) ==
    LET s == Lower(PathSuffix(p))
    IN  Len(s) > 0 => \E i \in 1..NFormats : Suffix[i] = s

\* types = [s in Path(p).name for s in sf]
SuffixMatch(s, p) == Contains(s, PathName(p))

\* _model_type with triton decided by the URL alone
ModelTypes_anyurl(p) ==
    LET url == UrlParse(p)
        t0 == [i \in 1..NFormats |-> SuffixMatch(Suffix[i], p)]
        types == [t0 EXCEPT ![TFLITE] = t0[TFLITE] /\ ~t0[EDGETPU]]
        triton == /\ \E s \in {"http", "grpc"} : Contains(s, url.scheme)
                  /\ url.netloc # ""
    IN  types \o <<triton>>

\* _model_type without types[8] &= not types[9]
ModelTypes_bothlite(p) ==
    LET url == UrlParse(p)
        types == [i \in 1..NFormats |-> SuffixMatch(Suffix[i], p)]
        triton == /\ ~ \E i \in 1..NFormats : types[i]
                  /\ \E s \in {"http", "grpc"} : Contains(s, url.scheme)
                  /\ url.netloc # ""
    IN  types \o <<triton>>

\* DetectMultiBackend._model_type without its check_suffix assertion
ModelTypes(p) ==
    LET url == UrlParse(p)
        t0 == [i \in 1..NFormats |-> SuffixMatch(Suffix[i], p)]
        types == [t0 EXCEPT ![TFLITE] = t0[TFLITE] /\ ~t0[EDGETPU]]
        triton == /\ ~ \E i \in 1..NFormats : types[i]
                  /\ \E s \in {"http", "grpc"} : Contains(s, url.scheme)
                  /\ url.netloc # ""
    IN  types \o <<triton>>

NoFlags == [i \in 1..(NFormats + 1) |-> FALSE]

\* DetectMultiBackend._model_type(p): raises when check_suffix asserts
_model_type(p) ==
    IF ~is_url(p) /\ ~check_suffix(p)
    THEN [raised |-> TRUE, types |-> NoFlags]
    ELSE [raised |-> FALSE, types |-> ModelTypes(p)]

-----------------------------------------------------------------------------
(* The inputs of __init__ *)

Stem == "yolov5s"

\* the second suffix of the names that carry two: two file extensions and a
\* directory suffix
SecondSuffix == {".onnx", ".pb", "_paddle_model"}

\* one export per format, file names carrying two export suffixes, and names,
\* directories and URLs that carry none or an unsupported one
Weights ==
    {Stem \o Suffix[i] : i \in 1..NFormats}
    \cup {Stem \o Suffix[i] \o s : i \in 1..NFormats, s \in SecondSuffix}
    \cup {"yolov5s", "yolov5s.txt", "yolov5s.PT", "yolov5s.pth",
          "runs.pt/yolov5s", "yolov5s_saved_model/",
          "http://localhost:8000", "grpc://localhost:8001",
          "https://host/yolov5s", "grpc:///yolov5s", "file://host/yolov5s",
          "http://host/yolov5s.onnx"}

BackendNames == <<"pt", "jit", "onnx", "xml", "engine", "coreml", "saved_model",
                  "pb", "tflite", "edgetpu", "tfjs", "paddle", "triton">>

\* the artifact's metadata: absent, a (stride, names) record, or the record
\* of an ImageNet classifier whose names are the 1000 WordNet ids
NoMeta == [has |-> FALSE, kind |-> "none", stride |-> 0, n |-> 0]

MetaStrides == {16, 64}

PtStrides == {8, 64}

ImageNetClasses == 1000

Metas ==
    {NoMeta}
    \cup {[has |-> TRUE, kind |-> "plain", stride |-> s, n |-> n] :
             s \in MetaStrides, n \in 0..MaxNames}
    \cup {[has |-> TRUE, kind |-> "imagenet", stride |-> 32, n |-> ImageNetClasses]}

\* the data argument: None, or a dataset yaml with n names
NoData == [given |-> FALSE, n |-> 0]

DataArgs == {NoData} \cup {[given |-> TRUE, n |-> n] : n \in 0..MaxNames}

\* TritonRemoteModel.runtime: the platform string the server reports
Runtimes == {"tensorflow_savedmodel", "onnxruntime_onnx", "pytorch_libtorch"}

\* names as an exporter writes them: dict(enumerate(labels))
MetaNames(n) == [i \in 0..(n - 1) |-> "name" \o ToString(i)]

ImageNetIds ==
    [i \in 0..(ImageNetClasses - 1) |->
        IF i = 0 THEN "n01440764" ELSE "n" \o ToString(i)]

\* yaml_load(ROOT / "data/ImageNet.yaml")["names"]
ImageNetNames == [i \in 0..(ImageNetClasses - 1) |-> "imagenet" \o ToString(i)]

\* yaml_load(data)["names"]
DataNames(n) == [i \in 0..(n - 1) |-> "data" \o ToString(i)]

NDefaultNames == 999

\* the default names built over range(998)
DefaultNames_short == [i \in 0..(NDefaultNames - 2) |-> "class" \o ToString(i)]

\* {i: f"class{i}" for i in range(999)}
DefaultNames == [i \in 0..(NDefaultNames - 1) |-> "class" \o ToString(i)]

NamesOf(meta) == IF meta.kind = "imagenet" THEN ImageNetIds ELSE MetaNames(meta.n)

DefaultStride == 32

\* _model_type over the inputs of the model, evaluated once
ModelTypeOf == [p \in Weights |-> _model_type(p)]

-----------------------------------------------------------------------------
(* The backend loader: DetectMultiBackend.__init__ *)

\* the if / elif chain of __init__: the loader branch entered
LoaderBranch(t, dnnArg) ==
    IF t[PT] THEN "pt"
    ELSE IF t[JIT] THEN "jit"
    ELSE IF dnnArg THEN "dnn"
    ELSE IF t[ONNX] THEN "onnx"
    ELSE IF t[XML] THEN "xml"
    ELSE IF t[ENGINE] THEN "engine"
    ELSE IF t[COREML] THEN "coreml"
    ELSE IF t[SAVED_MODEL] THEN "saved_model"
    ELSE IF t[PB] THEN "pb"
    ELSE IF t[TFLITE] \/ t[EDGETPU] THEN "tflite"
    ELSE IF t[TFJS] THEN "tfjs"
    ELSE IF t[PADDLE] THEN "paddle"
    ELSE IF t[TRITON] THEN "triton"
    ELSE "none"

\* nhwc = coreml or saved_model or pb or tflite or edgetpu
NhwcOf(t) == t[COREML] \/ t[SAVED_MODEL] \/ t[PB] \/ t[TFLITE] \/ t[EDGETPU]

\* the handle variables each loader branch binds, and what they hold
HandlesOf(b, meta) ==
    CASE b = "pt" -> [h \in {"model"} |-> "pt"]
      [] b = "jit" -> [h \in {"model", "extra_files"} |-> "jit"]
      [] b = "dnn" -> [h \in {"net"} |-> "dnn"]
      [] b = "onnx" -> [h \in {"session", "output_names", "meta", "providers"} |-> "onnx"]
      [] b = "xml" -> [h \in {"core", "ov_model", "batch_dim", "ov_compiled_model"} |-> "xml"]
      [] b = "engine" -> [h \in {"model", "context", "bindings", "output_names", "dynamic",
                                 "binding_addrs", "batch_size", "Binding", "logger"} |-> "engine"]
      [] b = "coreml" -> [h \in {"model", "ct"} |-> "coreml"]
      [] b = "saved_model" -> [h \in {"model", "keras", "tf"} |-> "saved_model"]
      [] b = "pb" -> [h \in {"frozen_func", "gd", "tf"} |-> "pb"]
      [] b = "tflite" ->
            [h \in {"interpreter", "input_details", "output_details", "Interpreter",
                    "load_delegate"} \cup (IF meta.has THEN {"model", "meta_file", "meta"} ELSE {})
                |-> IF h = "model" THEN "zipfile" ELSE "tflite"]
      [] b = "paddle" -> [h \in {"predictor", "input_handle", "output_names", "config", "pdi"}
                            |-> "paddle"]
      [] b = "triton" -> [h \in {"model"} |-> "triton"]
      [] OTHER -> <<>>

\* which backends read stride and names from the artifact
ReadsMeta(b) == b \in {"jit", "onnx", "xml", "tflite"}

\* _load_metadata falling back to the default stride and names
_load_metadata_default(f) ==
    IF f.has
    THEN [none |-> FALSE, stride |-> f.stride, names |-> NamesOf(f)]
    ELSE [none |-> FALSE, stride |-> DefaultStride, names |-> DefaultNames]

\* DetectMultiBackend._load_metadata(f): f is the yaml file, NoMeta when it
\* does not exist; none marks the pair (None, None), whose stride reads 0
_load_metadata(f) ==
    IF f.has
    THEN [none |-> FALSE, stride |-> f.stride, names |-> NamesOf(f)]
    ELSE [none |-> TRUE, stride |-> 0, names |-> <<>>]

\* the loader with stride = int(model.stride.max()) for a PyTorch checkpoint
StrideOf_noclamp(b, meta, ptStride) ==
    IF b = "pt" THEN ptStride
    ELSE IF b = "xml" THEN _load_metadata(meta).stride
    ELSE IF ReadsMeta(b) /\ meta.has THEN meta.stride
    ELSE DefaultStride

\* the local variable stride when the loader branch has run; 0 stands for None
StrideOf(b, meta, ptStride) ==
    IF b = "pt" THEN (IF ptStride > 32 THEN ptStride ELSE 32)
    ELSE IF b = "xml" THEN _load_metadata(meta).stride
    ELSE IF ReadsMeta(b) /\ meta.has THEN meta.stride
    ELSE DefaultStride

\* the local variable names when the loader branch has run
NamesTag(b, meta) ==
    IF b = "xml" THEN (IF _load_metadata(meta).none THEN "none" ELSE "set")
    ELSE IF b = "pt" \/ (ReadsMeta(b) /\ meta.has) THEN "set"
    ELSE "unset"

\* the parameters and locals every completed __init__ assigns
CommonAttrs ==
    {"weights", "device", "dnn", "data", "fp16", "fuse", "w", "nhwc", "stride",
     "cuda", "names"} \cup {BackendNames[i] : i \in 1..(NFormats + 1)}

\* what the environment of one loader branch can be
Envs(b) ==
    [ok : BOOLEAN,
     meta : IF b = "pt" THEN Metas \ {NoMeta} ELSE IF ReadsMeta(b) THEN Metas ELSE {NoMeta},
     ptStride : IF b = "pt" THEN PtStrides ELSE {DefaultStride},
     runtime : IF b = "triton" THEN Runtimes ELSE {""},
     data : IF NamesTag(b, NoMeta) = "unset" THEN DataArgs ELSE {NoData}]

NoOut == [cont |-> "none", items |-> <<>>]

NoShape == <<>>

NoFwd == [called |-> FALSE, im |-> NoShape, branch |-> "", read |-> {}, layout |-> "",
          exc |-> "", y |-> NoOut, ret |-> NoOut]

NoWarm == [called |-> FALSE, imgsz |-> NoShape, returned |-> FALSE, calls |-> 0,
           im |-> NoShape]

NoLm == [called |-> FALSE, file |-> NoMeta, ret |-> [none |-> TRUE, stride |-> 0, names |-> <<>>]]

\* the _load_metadata call of the OpenVINO branch, once the model is compiled
LmOf(b, env) ==
    IF b = "xml" /\ env.ok
    THEN [called |-> TRUE, file |-> env.meta, ret |-> _load_metadata(env.meta)]
    ELSE NoLm

NoLayer == [op |-> "none"]

NoRes == [op |-> "none"]

Init ==
    /\ pc = "start"
    /\ exc = ""
    /\ w = ""
    /\ mt = [raised |-> FALSE, types |-> NoFlags]
    /\ loader = ""
    /\ attrs = {}
    /\ flags = NoFlags
    /\ dnn = FALSE
    /\ nhwc = FALSE
    /\ device = ""
    /\ stride = 0
    /\ names = <<>>
    /\ handle = <<>>
    /\ artifact = NoMeta
    /\ data = NoData
    /\ runtime = ""
    /\ fwd = NoFwd
    /\ warm = NoWarm
    /\ lm = NoLm
    /\ layer = NoLayer
    /\ heap = <<>>
    /\ res = NoRes

\* __init__ ends in an exception: nothing is assigned on self
Raise(weights, r, b, e, l) ==
    /\ pc' = "raised"
    /\ exc' = e
    /\ w' = weights
    /\ mt' = r
    /\ loader' = b
    /\ lm' = l
    /\ UNCHANGED <<attrs, flags, dnn, nhwc, device, stride, names, handle,
                   artifact, data, runtime, fwd, warm>>

\* DetectMultiBackend.__init__(weights, device, dnn, data)
__init__ ==
    /\ pc = "start"
    /\ UNCHANGED otherVars
    /\ \E weights \in Weights, dnnArg \in BOOLEAN, dev \in {"cpu", "cuda"} :
        LET r == ModelTypeOf[weights]
            t == r.types
            b == LoaderBranch(t, dnnArg)
        IN  IF r.raised THEN Raise(weights, r, "", "AssertionError", NoLm)
            ELSE IF b \in {"tfjs", "none"} THEN Raise(weights, r, "", "NotImplementedError", NoLm)
            ELSE \E env \in Envs(b) :
                LET tag == NamesTag(b, env.meta)
                    nm0 == IF b = "xml" THEN _load_metadata(env.meta).names
                           ELSE IF tag = "set" THEN NamesOf(env.meta)
                           ELSE IF env.data.given THEN DataNames(env.data.n)
                           ELSE DefaultNames
                    nm == IF nm0[0] = "n01440764" /\ Cardinality(DOMAIN nm0) = ImageNetClasses
                          THEN ImageNetNames ELSE nm0
                IN  IF ~env.ok THEN Raise(weights, r, b, "LoaderError", LmOf(b, env))
                    ELSE IF tag = "none" THEN Raise(weights, r, b, "TypeError", LmOf(b, env))
                    ELSE IF 0 \notin DOMAIN nm0 THEN Raise(weights, r, b, "KeyError", LmOf(b, env))
                    ELSE /\ pc' = "loaded"
                         /\ exc' = ""
                         /\ w' = weights
                         /\ mt' = r
                         /\ loader' = b
                         /\ flags' = t
                         /\ dnn' = dnnArg
                         /\ nhwc' = IF b = "triton" THEN StartsWith("tensorflow", env.runtime)
                                    ELSE NhwcOf(t)
                         /\ device' = IF b = "engine" /\ dev = "cpu" THEN "cuda" ELSE dev
                         /\ stride' = StrideOf(b, env.meta, env.ptStride)
                         /\ names' = nm
                         /\ handle' = HandlesOf(b, env.meta)
                         /\ attrs' = CommonAttrs \cup DOMAIN HandlesOf(b, env.meta)
                         /\ artifact' = env.meta
                         /\ data' = env.data
                         /\ runtime' = env.runtime
                         /\ lm' = LmOf(b, env)
                         /\ UNCHANGED <<fwd, warm>>

-----------------------------------------------------------------------------
(* The unified inference call: DetectMultiBackend.forward *)

\* input shapes (batch, channel, height, width)
Shapes == {<<1, 3, 640, 640>>, <<1, 3, 320, 192>>}

\* the if / elif chain of forward: the branch executed
ForwardBranch(t, dnnAttr) ==
    IF t[PT] THEN "pt"
    ELSE IF t[JIT] THEN "jit"
    ELSE IF dnnAttr THEN "dnn"
    ELSE IF t[ONNX] THEN "onnx"
    ELSE IF t[XML] THEN "xml"
    ELSE IF t[ENGINE] THEN "engine"
    ELSE IF t[COREML] THEN "coreml"
    ELSE IF t[PADDLE] THEN "paddle"
    ELSE IF t[TRITON] THEN "triton"
    ELSE IF t[SAVED_MODEL] THEN "saved_model"
    ELSE IF t[PB] THEN "pb"
    ELSE "tflite"

\* the handle attributes each branch of forward reads from self
ForwardReads(b) ==
    CASE b \in {"pt", "jit", "coreml", "triton"} -> {"model"}
      [] b = "dnn" -> {"net"}
      [] b = "onnx" -> {"session", "output_names"}
      [] b = "xml" -> {"ov_compiled_model"}
      [] b = "engine" -> {"dynamic", "bindings", "model", "context", "output_names",
                          "binding_addrs"}
      [] b = "paddle" -> {"input_handle", "predictor", "output_names"}
      [] b = "saved_model" -> {"model", "keras"}
      [] b = "pb" -> {"frozen_func", "tf"}
      [] b = "tflite" -> {"input_details", "interpreter", "output_details"}

Ndarray(i) == [kind |-> "ndarray", id |-> i, dev |-> "host"]

Tensor(i, d) == [kind |-> "tensor", id |-> i, dev |-> d]

\* what the variable y can hold when the branch's native call has returned
NativeOutputs(b, d) ==
    LET arrays == {[cont |-> "list", items |-> [i \in 1..k |-> Ndarray(i)]] : k \in 1..MaxOutputs}
        tensors(c) == {[cont |-> c, items |-> [i \in 1..k |-> Tensor(i, d)]] : k \in 1..MaxOutputs}
    IN  CASE b \in {"pt", "jit", "triton"} ->
                {[cont |-> "single", items |-> <<Tensor(1, d)>>]}
                    \cup tensors("list") \cup tensors("tuple")
          [] b = "dnn" -> {[cont |-> "single", items |-> <<Ndarray(1)>>]}
          [] b = "engine" -> tensors("list")
          [] b = "coreml" -> {[cont |-> "single", items |-> <<Ndarray(1)>>]} \cup arrays
          [] OTHER -> arrays

\* from_numpy that hands every output through
from_numpy_passthrough(x, d) == x

\* DetectMultiBackend.from_numpy(x)
from_numpy(x, d) == IF x.kind = "ndarray" THEN Tensor(x.id, d) ELSE x

\* the return statement of forward
ForwardReturn(y, d) ==
    IF y.cont \in {"list", "tuple"}
    THEN IF Len(y.items) = 1
         THEN [cont |-> "single", items |-> <<from_numpy(y.items[1], d)>>]
         ELSE [cont |-> "list", items |-> [i \in 1..Len(y.items) |-> from_numpy(y.items[i], d)]]
    ELSE [cont |-> "single", items |-> <<from_numpy(y.items[1], d)>>]

\* one call of forward on the loaded instance, y being what the native call returns
ForwardCall(shape, y) ==
    LET b == ForwardBranch(flags, dnn)
        missing == ForwardReads(b) \ attrs
    IN  [called |-> TRUE,
         im |-> shape,
         branch |-> b,
         read |-> ForwardReads(b),
         layout |-> IF nhwc THEN "BHWC" ELSE "BCHW",
         exc |-> IF missing # {} THEN "AttributeError" ELSE "",
         y |-> IF missing # {} THEN NoOut ELSE y,
         ret |-> IF missing # {} THEN NoOut ELSE ForwardReturn(y, device)]

\* DetectMultiBackend.forward(im)
forward ==
    /\ pc = "loaded"
    /\ \E shape \in Shapes, y \in NativeOutputs(ForwardBranch(flags, dnn), device) :
        fwd' = ForwardCall(shape, y)
    /\ UNCHANGED <<pc, exc, w, mt, loader, attrs, flags, dnn, nhwc, device,
                   stride, names, handle, artifact, data, runtime, warm, lm>>
    /\ UNCHANGED otherVars

-----------------------------------------------------------------------------
(* Warmup *)

\* the warmup condition without its device test
WarmupRuns_anydevice(t, d) ==
    t[PT] \/ t[JIT] \/ t[ONNX] \/ t[ENGINE] \/ t[SAVED_MODEL] \/ t[PB] \/ t[TRITON]

\* any(warmup_types) and (self.device.type != "cpu" or self.triton)
WarmupRuns(t, d) ==
    /\ t[PT] \/ t[JIT] \/ t[ONNX] \/ t[ENGINE] \/ t[SAVED_MODEL] \/ t[PB] \/ t[TRITON]
    /\ d # "cpu" \/ t[TRITON]

\* range(2 if self.jit else 1)
WarmupPasses(t) == IF t[JIT] THEN 2 ELSE 1

\* DetectMultiBackend.warmup(imgsz)
warmup ==
    /\ pc = "loaded"
    /\ \E imgsz \in Shapes :
        LET n == IF WarmupRuns(flags, device) THEN WarmupPasses(flags) ELSE 0
            outs == NativeOutputs(ForwardBranch(flags, dnn), device)
        IN  \E y1 \in IF n >= 1 THEN outs ELSE {NoOut}, y2 \in IF n >= 2 THEN outs ELSE {NoOut} :
        LET f1 == ForwardCall(imgsz, y1)
            f2 == ForwardCall(imgsz, y2)
        IN  IF n = 0
            THEN /\ warm' = [called |-> TRUE, imgsz |-> imgsz, returned |-> TRUE, calls |-> 0,
                             im |-> NoShape]
                 /\ fwd' = fwd
            ELSE IF f1.exc # ""
            THEN /\ warm' = [called |-> TRUE, imgsz |-> imgsz, returned |-> FALSE, calls |-> 1,
                             im |-> f1.im]
                 /\ fwd' = f1
            ELSE IF n = 1
            THEN /\ warm' = [called |-> TRUE, imgsz |-> imgsz, returned |-> TRUE, calls |-> 1,
                             im |-> f1.im]
                 /\ fwd' = f1
            ELSE /\ warm' = [called |-> TRUE, imgsz |-> imgsz, returned |-> f2.exc = "",
                             calls |-> 2, im |-> f2.im]
                 /\ fwd' = f2
    /\ UNCHANGED <<pc, exc, w, mt, loader, attrs, flags, dnn, nhwc, device,
                   stride, names, handle, artifact, data, runtime, lm>>
    /\ UNCHANGED otherVars

Next == __init__ \/ forward \/ warmup

Spec == Init /\ [][Next]_vars

-----------------------------------------------------------------------------
(* autopad and Conv *)

\* p=None
NoPad == <<>>

\* a kernel size is <<k>> for an int and <<kh, kw>> for a list; a padding
\* has the same form
IsInt(k) == Len(k) = 1

\* autopad without the dilation adjustment
autopad_nodilation(k, p, d) ==
    IF p = NoPad THEN [i \in 1..Len(k) |-> k[i] \div 2] ELSE p

\* autopad(k, p, d)
autopad(k, p, d) ==
    LET k1 == IF d > 1 THEN [i \in 1..Len(k) |-> d * (k[i] - 1) + 1] ELSE k
    IN  IF p = NoPad THEN [i \in 1..Len(k1) |-> k1[i] \div 2] ELSE p

\* the value of an int-or-pair argument on axis i
Axis(v, i) == IF IsInt(v) THEN v[1] ELSE v[i]

\* the output size of nn.Conv2d on one axis of input size n; 0 when the
\* padded input is smaller than the dilated kernel
ConvOut(n, k, s, p, d) ==
    LET span == n + 2 * p - d * (k - 1) - 1
    IN  IF span < 0 THEN 0 ELSE (span \div s) + 1

Kernels == {<<k>> : k \in 1..MaxK} \cup {<<3, k>> : k \in 1..MaxK}

Paddings == {NoPad} \cup {<<p>> : p \in 0..MaxP}

InputSizes == {8, 13}

\* Conv.__init__(c1, c2, k, s, p, g, d) and the size of what self.conv
\* returns for an input of n x n; layers carry no state from one call to the
\* next, a behaviour holds one call
Conv ==
    /\ layer = NoLayer
    /\ \E k \in Kernels, s \in {1, 2}, p \in Paddings, d \in 1..MaxD, n \in InputSizes :
        LET pad == autopad(k, p, d)
        IN  /\ layer' = [op |-> "conv", k |-> k, s |-> s, p |-> p, d |-> d, n |-> n,
                         pad |-> pad,
                         out |-> [i \in 1..2 |->
                                    ConvOut(n, Axis(k, i), s, Axis(pad, i), d)]]
            /\ UNCHANGED <<heap, res>>
            /\ UNCHANGED dmbVars

-----------------------------------------------------------------------------
(* SPP and SPPF *)

Cells == (1..GridH) \X (1..GridW)

\* a feature map of one channel, as cv1 hands it to the pooling layers
Grids == [Cells -> {0, 1}]

\* nn.MaxPool2d(kernel_size=k, stride=1, padding=k // 2) on a GridH x GridW
\* map, k odd: the padding cells never win the maximum
MaxPool(x, k) ==
    LET pad == k \div 2
        Lo(i)    == IF i - pad < 1 THEN 1 ELSE i - pad
        Hi(i, n) == IF i - pad + k - 1 > n THEN n ELSE i - pad + k - 1
    IN  [c \in Cells |->
            Max({x[e] : e \in (Lo(c[1])..Hi(c[1], GridH)) \X (Lo(c[2])..Hi(c[2], GridW))})]

\* SPP.forward: the maps handed to cv2, [x] + [m(x) for m in self.m]
SPPMaps(x, ks) == <<x>> \o [i \in 1..Len(ks) |-> MaxPool(x, ks[i])]

\* SPPF.forward pooling y1 twice instead of chaining y1, y2, m(y2)
SPPFMaps_repeat(x, k) ==
    LET y1 == MaxPool(x, k)
        y2 == MaxPool(y1, k)
    IN  <<x, y1, y2, MaxPool(y1, k)>>

\* SPPF.forward: the maps handed to cv2, (x, y1, y2, self.m(y2))
SPPFMaps(x, k) ==
    LET y1 == MaxPool(x, k)
        y2 == MaxPool(y1, k)
    IN  <<x, y1, y2, MaxPool(y2, k)>>

\* the default kernel sizes of SPP and SPPF
SPPKernels == <<5, 9, 13>>

SPPFKernel == 5

\* SPP(c1, c2).forward on the map x
SPP ==
    /\ layer = NoLayer
    /\ \E x \in Grids :
        /\ layer' = [op |-> "spp", x |-> x, maps |-> SPPMaps(x, SPPKernels)]
        /\ UNCHANGED <<heap, res>>
        /\ UNCHANGED dmbVars

\* SPPF(c1, c2).forward on the map x
SPPF ==
    /\ layer = NoLayer
    /\ \E x \in Grids :
        /\ layer' = [op |-> "sppf", x |-> x, maps |-> SPPFMaps(x, SPPFKernel)]
        /\ UNCHANGED <<heap, res>>
        /\ UNCHANGED dmbVars

NextLayers == Conv \/ SPP \/ SPPF

SpecLayers == Init /\ [][NextLayers]_vars

-----------------------------------------------------------------------------
(* AutoShape.forward *)

SeqsUpTo(S, n) == UNION {[1..k -> S] : k \in 0..n}

\* what AutoShape.forward accepts as one image: a file name, a URI, a PIL
\* image with or without a filename, a numpy array
ImageKinds == {"file", "uri", "pil", "pil_unnamed", "numpy"}

Images == [kind : ImageKinds, id : 1..MaxIds]

\* ims: a torch.Tensor batch, one image, or a list / tuple of images
\* the images of a BCHW tensor batch
Planes == [kind : {"chw"}, id : 1..MaxIds]

Inputs ==
    {[type |-> "tensor", v |-> b] : b \in SeqsUpTo(Planes, MaxBatch) \ {<<>>}}
    \cup {[type |-> "image", v |-> <<im>>] : im \in Images}
    \cup {[type |-> t, v |-> l] : t \in {"list", "tuple"}, l \in SeqsUpTo(Images, MaxBatch)}

\* the file name or URI an image is opened from, the filename attribute of a
\* PIL image
ImagePath ==
    [im \in Images |->
        IF im.kind = "uri" THEN "https://host/im" \o ToString(im.id) \o ".png"
        ELSE IF im.kind \in {"file", "pil"} THEN "data/im" \o ToString(im.id) \o ".png"
        ELSE ""]

\* Path(f).with_suffix(".jpg").name
JpgName(f) ==
    LET nm == PathName(f)
        sx == PathSuffix(f)
    IN  SubSeq(nm, 1, Len(nm) - Len(sx)) \o ".jpg"

\* files[i] for the i-th image (i counted from 0)
FileOf ==
    [im \in Images |-> [i \in 0..(MaxBatch - 1) |->
        LET f0 == "image" \o ToString(i)
            f  == IF im.kind \in {"file", "uri"} THEN ImagePath[im]
                  ELSE IF im.kind = "pil" /\ ImagePath[im] # "" THEN ImagePath[im]
                  ELSE f0
        IN  JpgName(f)]]

\* the HWC array an image is turned into
Pixels(im) == [kind |-> "ndarray", id |-> im.id]

\* the batch handed to the model, built from the first image only
Batch_first(ims) == <<ims[1].id>>

\* x: the letterboxed images stacked in order
Batch(ims) == [i \in 1..Len(ims) |-> ims[i].id]

\* self.model(x): a DetectMultiBackend returns the prediction tensor, a
\* bare model the tuple (prediction, features)
Raw(x) == [kind |-> "raw", batch |-> x]

ModelOut(x, dmb) == IF dmb THEN Raw(x) ELSE <<Raw(x), "features">>

\* non_max_suppression: one box tensor per image of the batch, in order
non_max_suppression(y) ==
    [i \in 1..Len(y.batch) |->
        [fmt |-> "tensor", box |-> "xyxy", id |-> y.batch[i], scaled |-> FALSE]]

\* scale_boxes(shape1, y[i][:, :4], shape0[i]), in place
scale_boxes(t) == [t EXCEPT !.scaled = TRUE]

\* size=640
Size == 640

-----------------------------------------------------------------------------
(* Detections *)

\* xyxy2xywh(x), x / g
Boxes(t, k) == [t EXCEPT !.box = k]

\* Detections.__init__(ims, pred, files, times, names, shape)
Detections(ims, pred, files, shape) ==
    LET xywh == [i \in 1..Len(pred) |-> Boxes(pred[i], "xywh")]
        m    == IF Len(pred) < Len(ims) THEN Len(pred) ELSE Len(ims)
    IN  [ims   |-> ims,
         pred  |-> pred,
         files |-> files,
         xyxy  |-> pred,
         xywh  |-> xywh,
         xyxyn |-> [i \in 1..m |-> Boxes(pred[i], "xyxyn")],
         xywhn |-> [i \in 1..m |-> Boxes(xywh[i], "xywhn")],
         n     |-> Len(pred),
         s     |-> shape]

\* AutoShape.forward(ims); a behaviour holds one call and the use made of
\* its result
AutoShape_forward ==
    /\ res = NoRes
    /\ \E in \in Inputs, dmb \in BOOLEAN :
        /\ IF in.type = "tensor"
           THEN /\ heap' = <<>>
                /\ res' = [op |-> "forward", in |-> in, dmb |-> dmb, raised |-> "",
                           steps |-> <<"model">>, ret |-> ModelOut(Batch(in.v), dmb)]
           ELSE LET n    == IF in.type \in {"list", "tuple"} THEN Len(in.v) ELSE 1
                    ims  == [i \in 1..n |-> Pixels(in.v[i])]
                    files == [i \in 1..n |-> FileOf[in.v[i]][i - 1]]
                    x    == Batch(in.v)
                    out  == ModelOut(x, dmb)
                    y0   == non_max_suppression(IF dmb THEN out ELSE out[1])
                    y    == [i \in 1..Len(y0) |-> IF i <= n THEN scale_boxes(y0[i]) ELSE y0[i]]
                IN  IF n = 0
                    THEN \* np.array(shape1).max(0) of an empty list
                         /\ heap' = <<>>
                         /\ res' = [op |-> "forward", in |-> in, dmb |-> dmb,
                                    raised |-> "ValueError", steps |-> <<"preprocess">>]
                    ELSE /\ heap' = <<Detections(ims, y, files, <<Len(x), 3, Size, Size>>)>>
                         /\ res' = [op |-> "forward", in |-> in, dmb |-> dmb, raised |-> "",
                                    steps |-> <<"preprocess", "model", "nms", "scale_boxes">>,
                                    ret |-> 1]
        /\ UNCHANGED layer
        /\ UNCHANGED dmbVars

Objs == 1..Len(heap)

\* Detections.__len__
__len__ ==
    \E self \in Objs :
        /\ res' = [op |-> "len", self |-> self, ret |-> heap[self].n]
        /\ UNCHANGED <<layer, heap>>
        /\ UNCHANGED dmbVars

\* the list Detections.tolist builds, every entry made of the first result
TolistItems_first(o) ==
    [i \in 1..o.n |-> Detections(<<o.ims[1]>>, <<o.pred[1]>>, <<o.files[1]>>, o.s)]

\* the list Detections.tolist builds
TolistItems(o) ==
    [i \in 1..o.n |-> Detections(<<o.ims[i]>>, <<o.pred[i]>>, <<o.files[i]>>, o.s)]

\* Detections.tolist
tolist ==
    \E self \in Objs :
        /\ Len(heap) + heap[self].n <= MaxObjs
        /\ heap' = heap \o TolistItems(heap[self])
        /\ res' = [op |-> "tolist", self |-> self,
                   ret |-> [i \in 1..heap[self].n |-> Len(heap) + i]]
        /\ UNCHANGED layer
        /\ UNCHANGED dmbVars

\* a "copy" that hands back the object itself
copy_alias(h, o) == [heap |-> h, ref |-> o]

\* copy(self): a new object with the attributes of self
copy(h, o) == [heap |-> Append(h, h[o]), ref |-> Len(h) + 1]

\* pd.DataFrame(x, columns=c) of one box tensor
DataFrame(t) == [t EXCEPT !.fmt = "frame"]

Frames(l) == [i \in 1..Len(l) |-> DataFrame(l[i])]

\* Detections.pandas
pandas ==
    \E self \in Objs :
        /\ Len(heap) < MaxObjs
        /\ LET c   == copy(heap, self)
               old == heap[self]
           IN  /\ heap' = [c.heap EXCEPT ![c.ref] =
                              [@ EXCEPT !.xyxy  = Frames(old.xyxy),
                                        !.xyxyn = Frames(old.xyxyn),
                                        !.xywh  = Frames(old.xywh),
                                        !.xywhn = Frames(old.xywhn)]]
               /\ res' = [op |-> "pandas", self |-> self, before |-> old, ret |-> c.ref]
        /\ UNCHANGED layer
        /\ UNCHANGED dmbVars

NextDetect == AutoShape_forward \/ __len__ \/ tolist \/ pandas

SpecDetect == Init /\ [][NextDetect]_vars

-----------------------------------------------------------------------------
(* Facts about the input paths, evaluated once *)

\* whether the file name of p ends with the i-th export suffix
NameEndsWith == [p \in Weights |-> [i \in 1..NFormats |-> EndsWith(Suffix[i], PathName(p))]]

\* whether the URL scheme of p contains "http" or "grpc"
SchemeIsRemote ==
    [p \in Weights |-> Contains("http", UrlParse(p).scheme) \/ Contains("grpc", UrlParse(p).scheme)]

\* whether the URL of p has a network location
HasNetloc == [p \in Weights |-> UrlParse(p).netloc # ""]

\* _model_type(w) has returned
Sniffed == pc # "start" /\ ~mt.raised

FormatFlags(t) == {i \in 1..NFormats : t[i]}

-----------------------------------------------------------------------------
(* Properties *)

\* C1: after __init__ completes, exactly one of the thirteen backend kind
\* flags returned by _model_type is true on the instance.
C1_ExactlyOneBackendFlag ==
    pc = "loaded" => Cardinality({i \in 1..(NFormats + 1) : flags[i]}) = 1

\* C2: every forward call on a loaded instance executes the branch of the
\* backend whose loader ran in __init__, and reads only handles that loader
\* created.
C2_ForwardUsesLoadedBackend ==
    fwd.called =>
        /\ fwd.branch = loader
        /\ \A h \in fwd.read : h \in DOMAIN handle /\ handle[h] = loader

\* C3: a file-format flag returned by _model_type is true only if the file
\* name of the path ends with that format's export suffix.
C3_FlagOnlyIfNameEndsWithSuffix ==
    Sniffed => \A i \in 1..NFormats : mt.types[i] => NameEndsWith[w][i]

\* C4: _model_type returns triton = TRUE exactly when no file-format flag is
\* true, the URL scheme contains "http" or "grpc" and the network location is
\* not empty; so triton is never true together with a file-format flag.
C4_TritonExactlyForBareRemoteUrl ==
    Sniffed =>
        /\ mt.types[TRITON] <=>
              (FormatFlags(mt.types) = {} /\ SchemeIsRemote[w] /\ HasNetloc[w])
        /\ mt.types[TRITON] => FormatFlags(mt.types) = {}

\* C4 witness: _model_type returned with triton set.
C4_Witness == Sniffed /\ mt.types[TRITON] /\ pc = "loaded" /\ loader = "triton"

\* the backend whose loader ran is one that takes channel-last input
ChannelLastLoaded ==
    \/ loader \in {"coreml", "saved_model", "pb", "tflite"}
    \/ loader = "triton" /\ StartsWith("tensorflow", runtime)

\* C5: forward permutes the input to BHWC exactly when the loaded backend is
\* channel-last; for every other backend the native call gets BCHW.
C5_PermuteIffChannelLastBackend ==
    (fwd.called /\ fwd.exc = "") => ((fwd.layout = "BHWC") <=> ChannelLastLoaded)

\* C6: forward returns tensors only: a NumPy output becomes a tensor on
\* self.device, any other output is returned unchanged; a list or tuple of one
\* output is returned as that single tensor, one of k > 1 outputs as a list of
\* k tensors in the same order.
C6_ForwardReturnsTensors ==
    (fwd.called /\ fwd.exc = "") =>
        LET y == fwd.y.items
            r == fwd.ret.items
        IN  /\ Len(r) = Len(y)
            /\ \A i \in 1..Len(r) :
                /\ r[i].kind = "tensor"
                /\ r[i].id = y[i].id
                /\ IF y[i].kind = "ndarray" THEN r[i].dev = device ELSE r[i] = y[i]
            /\ fwd.ret.cont = IF Len(y) > 1 THEN "list" ELSE "single"
            /\ fwd.y.cont = "single" => Len(y) = 1

\* C6 witness: forward returned a list built from several NumPy outputs on a
\* CUDA device.
C6_Witness ==
    /\ fwd.called /\ fwd.exc = ""
    /\ fwd.y.cont = "list" /\ Len(fwd.y.items) > 1
    /\ fwd.y.items[1].kind = "ndarray"
    /\ device = "cuda"

C8_StridePositive ==
    pc = "loaded" =>
        /\ stride \in Nat \ {0}
        /\ ~artifact.has => stride = 32
        /\ loader = "pt" => stride >= 32

\* C8 witness: a PyTorch checkpoint whose largest stride is below 32 is loaded.
C8_Witness == pc = "loaded" /\ loader = "pt" /\ stride = 32

\* the labels class0 .. class998
C9_ClassLabels == [i \in 0..998 |-> "class" \o ToString(i)]

\* C9: after __init__ completes, self.names has a label for every index in
\* [0, len(names)); when neither the artifact's metadata nor a data file
\* supplies names it maps each i in 0..998 to "class<i>".
C9_NamesTotal ==
    pc = "loaded" =>
        /\ DOMAIN names = 0..(Cardinality(DOMAIN names) - 1)
        /\ (~artifact.has /\ ~data.given) => names = C9_ClassLabels

\* C9 witness: an instance is loaded with the default names.
C9_Witness ==
    pc = "loaded" /\ ~artifact.has /\ ~data.given /\ names[998] = "class998"

\* C10: when the weights are classified as TF.js, or as no backend at all,
\* __init__ raises NotImplementedError, no loader runs and no attribute is
\* assigned.
C10_UnsupportedRaisesNotImplemented ==
    (Sniffed /\ (mt.types[TFJS] \/ \A i \in 1..(NFormats + 1) : ~mt.types[i])) =>
        /\ pc = "raised"
        /\ exc = "NotImplementedError"
        /\ loader = ""
        /\ attrs = {}

\* C11: _load_metadata returns the (stride, names) pair stored in the
\* metadata file when the file exists, and returns (None, None) without
\* raising when it does not.
C11_LoadMetadataReturnsStoredPair ==
    lm.called =>
        IF lm.file.has
        THEN /\ ~lm.ret.none
             /\ lm.ret.stride = lm.file.stride
             /\ lm.ret.names = NamesOf(lm.file)
        ELSE /\ lm.ret.none
             /\ lm.ret.names = <<>>

\* C11 witness: _load_metadata was called for a missing file, returned
\* (None, None), and __init__ then failed on names[0].
C11_Witness ==
    lm.called /\ ~lm.file.has /\ lm.ret.none /\ pc = "raised" /\ exc = "TypeError"

\* C12: the OpenCV DNN loader and the OpenCV DNN branch of forward run only
\* for weights whose file name ends with .onnx, loaded with dnn=True.
C12_DnnOnlyForOnnx ==
    (pc # "start" /\ (loader = "dnn" \/ (fwd.called /\ fwd.branch = "dnn"))) =>
        NameEndsWith[w][ONNX]

\* whether the file name of p contains "_edgetpu.tflite"
NameHasEdgeTpu == [p \in Weights |-> Contains("_edgetpu.tflite", PathName(p))]

\* C18: _model_type never reports TFLite and Edge TPU together; for a file
\* name containing "_edgetpu.tflite" edgetpu is true and tflite is false.
C18_TfliteExcludesEdgeTpu ==
    Sniffed =>
        /\ ~(mt.types[TFLITE] /\ mt.types[EDGETPU])
        /\ NameHasEdgeTpu[w] => (mt.types[EDGETPU] /\ ~mt.types[TFLITE])

\* C18 witness: _model_type returned for an Edge TPU export.
C18_Witness ==
    Sniffed /\ NameHasEdgeTpu[w] /\ mt.types[EDGETPU] /\ pc = "loaded" /\ loader = "tflite"

C17_SppfEqualsSpp ==
    /\ layer.op = "sppf" =>
          /\ layer.maps = SPPMaps(layer.x, <<5, 9, 13>>)
          /\ layer.maps[3] = MaxPool(layer.x, 9)
          /\ layer.maps[4] = MaxPool(layer.x, 13)
    /\ layer.op = "spp" => layer.maps = SPPFMaps(layer.x, 5)

\* C17 witness: SPPF ran on a map whose size-9 and size-13 pools differ.
C17_Witness ==
    layer.op = "sppf" /\ Len(layer.maps) = 4 /\ layer.maps[3] # layer.maps[4]

C14_LenAndTolist ==
    /\ \A o \in Objs : heap[o].n = Len(heap[o].pred)
    /\ res.op = "len" => res.ret = Len(heap[res.self].pred)
    /\ res.op = "tolist" =>
          LET o == heap[res.self]
          IN  /\ Len(res.ret) = Len(o.pred)
              /\ \A i \in 1..Len(res.ret) :
                    LET r == heap[res.ret[i]]
                    IN  /\ r.n = 1
                        /\ r.ims = <<o.ims[i]>>
                        /\ r.pred = <<o.pred[i]>>
                        /\ r.files = <<o.files[i]>>

\* C14 witness: tolist split a result of two different images.
C14_Witness ==
    /\ res.op = "tolist" /\ Len(res.ret) = 2
    /\ heap[res.self].ims[1] # heap[res.self].ims[2]
    /\ heap[res.ret[2]].ims = <<heap[res.self].ims[2]>>

\* the box attributes of a Detections object
BoxAttrs(o) == <<o.xyxy, o.xyxyn, o.xywh, o.xywhn>>

\* C15: pandas() returns a copy; the xyxy, xyxyn, xywh and xywhn of the
\* object it is called on stay tensors, only the returned object holds
\* DataFrames.
C15_PandasReturnsCopy ==
    res.op = "pandas" =>
        /\ res.ret # res.self
        /\ heap[res.self] = res.before
        /\ \A k \in 1..4 :
              /\ \A i \in 1..Len(BoxAttrs(res.before)[k]) :
                    BoxAttrs(heap[res.self])[k][i].fmt = BoxAttrs(res.before)[k][i].fmt
              /\ BoxAttrs(heap[res.ret])[k] = Frames(BoxAttrs(res.before)[k])
        /\ heap[res.ret].pred = res.before.pred
        /\ heap[res.ret].ims = res.before.ims

\* C15 witness: pandas() ran on a result that holds tensors.
C15_Witness ==
    /\ res.op = "pandas" /\ res.ret # res.self
    /\ heap[res.self].xyxy[1].fmt = "tensor"
    /\ heap[res.ret].xyxy[1].fmt = "frame"

====
